---- MODULE Spec2Model ----
(***************************************************************************)
(* Model of google-cloud/src/pubsub/subscription.rs: the Subscription's    *)
(* batch buffer behind receive / receive_with_options, the streaming pull  *)
(* session opened by pull_streaming, and the Subscription values a caller  *)
(* owns: the derived Clone and delete.                                     *)
(*                                                                         *)
(* Option<T> is modelled as a sequence of length 0 (None) or 1 (Some).     *)
(***************************************************************************)
EXTENDS Integers, Sequences, FiniteSets, TLC

\* ------------------------------------------------------------------ bounds

\* Total number of envelopes the remote service hands out over all pulls.
MaxPulled == 4

\* Largest max_messages a caller asks for (ReceiveOptions::max_messages).
MaxMessages == 2

\* Total number of envelopes the remote service sends in a streaming session.
MaxStreamed == 2

\* Number of items exchanged in a streaming session, both directions together:
\* inbound items produced by the transport plus payloads submitted to a sink.
MaxTraffic == 3

\* ------------------------------------------------------------- data model

None == <<>>

Some(x) == <<x>>

\* Subscription::name, the fully-qualified subscription name.
Name == "projects/p/subscriptions/s"

\* prost Timestamp { seconds, nanos }.
Timestamp(s, n) == [seconds |-> s, nanos |-> n]

\* api::PubsubMessage, with publish_time : Option<Timestamp>.
PubsubMessage(d, id, attrs, t) ==
    [data |-> d, message_id |-> id, attributes |-> attrs, publish_time |-> t]

\* api::ReceivedMessage (the wire-level envelope), message : Option<PubsubMessage>.
ReceivedMessage(ack, m) == [ack_id |-> ack, message |-> m]

\* The envelopes the remote service may hand out: two well-formed ones that
\* differ in every field, one without inner message, one without timestamp.
Envelopes ==
    { ReceivedMessage("ack-1", Some(PubsubMessage("data-1", "id-1", {<<"k", "v">>},
                                         Some(Timestamp(1000, 500000000))))),
      ReceivedMessage("ack-2", Some(PubsubMessage("data-2", "id-2", {},
                                         Some(Timestamp(2000, 0))))),
      ReceivedMessage("ack-3", None),
      ReceivedMessage("ack-4", Some(PubsubMessage("data-4", "id-4", {}, None))) }

\* All sequences over S of length lo..hi.
SeqsOf(S, lo, hi) == UNION { [1..n -> S] : n \in lo..hi }

\* ReceiveOptions { return_immediately, max_messages }.
ReceiveOptions(ri, mm) == [return_immediately |-> ri, max_messages |-> mm]

\* impl Default for ReceiveOptions.
DefaultReceiveOptions == ReceiveOptions(FALSE, 1)

\* The options a caller passes to receive_with_options.
OptionChoices == { ReceiveOptions(ri, mm) : ri \in BOOLEAN, mm \in 1..MaxMessages }

\* api::PullRequest built by Subscription::pull.
PullRequest(name, o) ==
    [subscription |-> name,
     return_immediately |-> o.return_immediately,
     max_messages |-> o.max_messages]

\* ------------------------------------------------------------ translation

\* chrono::NaiveDateTime::from_timestamp(secs, nsecs) panics unless the
\* nanosecond part, after `nanos as u32`, is below 2_000_000_000.  A negative
\* i32 wraps to at least 2^31, so the cast value is in range exactly when
\* 0 <= nanos < 2_000_000_000.
FromTimestampOk(t) == t.nanos >= 0 /\ t.nanos < 2000000000

FromTimestamp(t) == [secs |-> t.seconds, nsecs |-> t.nanos]

\* TRUE when neither unwrap() nor from_timestamp panics on the envelope.
CanTranslate(handle) ==
    /\ handle.message # None
    /\ handle.message[1].publish_time # None
    /\ FromTimestampOk(handle.message[1].publish_time[1])

\* The Message built from an envelope (the client handle is left out).
ToMessage(handle, name) ==
    LET message   == handle.message[1]
        timestamp == message.publish_time[1]
    IN  [subscription_name |-> name,
         data              |-> message.data,
         message_id        |-> message.message_id,
         ack_id            |-> handle.ack_id,
         attributes        |-> message.attributes,
         publish_time      |-> FromTimestamp(timestamp)]

\* ------------------------------------------------------------------ state

VARIABLES
    buffer,     \* Subscription::buffer, a VecDeque of envelopes
    pc,         \* position of the receive call: idle, loop, constructing,
                \* pulling, panicked
    opts,       \* the ReceiveOptions of the current receive call
    inflight,   \* the PullRequest the remote service is serving, if any
    outcome,    \* how the latest receive call ended: none, pending, message,
                \* eos, cancelled, panic
    result,     \* Some(Message) when the latest call returned Some(message)
    pulled,     \* history: the non-empty batches returned by successful pulls
    returned,   \* history: the Messages returned by receive calls
    lastPull,   \* history: none, pending, construct_err, pull_err, empty, batch
    sawEmpty    \* history: the current call has seen an empty successful pull

receiveVars ==
    <<buffer, pc, opts, inflight, outcome, result, pulled, returned, lastPull, sawEmpty>>

\* The streaming pull session opened by pull_streaming.
VARIABLES
    sess,        \* position of pull_streaming: none, constructing, opening,
                 \* open (returned Ok), failed (returned Err)
    openOpts,    \* the ReceiveStreamOptions pull_streaming was called with
    sinks,       \* the outbound sink handles (the `sender.with(..)` wrapper and
                 \* its clones): absent, open, closed
    outq,        \* the request stream: frames queued and not yet transmitted
    transmitted, \* history: the frames the transport has sent to the service
    submitted,   \* history: the ReceiveStreamOptions submitted through a sink
    inq,         \* inbound items the transport holds for the response stream
    inEnded,     \* the transport has seen the end of the inbound direction
    inHist,      \* history: every inbound item the transport has produced
    stream,      \* the wrapped inbound stream: none, live, ended, panicked
    delivered    \* history: the items the wrapped stream gave its consumer

streamVars ==
    <<sess, openOpts, sinks, outq, transmitted, submitted,
      inq, inEnded, inHist, stream, delivered>>

\* The Subscription values the caller owns, and the delete call.
VARIABLES
    handles,        \* each Subscription value: absent, live, consumed (moved
                    \* into delete)
    focus,          \* the Subscription value the caller is working with: the
                    \* one whose buffer is `buffer`
    parked,         \* the buffer of the other Subscription value
    del,            \* position of the delete call: none, constructing,
                    \* deleting, ok, construct_err, remote_err
    deleteRequests, \* history: the delete requests sent to the remote service
    deleted         \* the remote service has deleted the subscription

handleVars == <<handles, focus, parked, del, deleteRequests, deleted>>

vars == <<receiveVars, streamVars, handleVars>>

RECURSIVE Flatten(_)
Flatten(batches) ==
    IF batches = <<>> THEN <<>> ELSE Head(batches) \o Flatten(Tail(batches))

\* Subscription::new: the buffer starts empty.
ReceiveInit ==
    /\ buffer = <<>>
    /\ pc = "idle"
    /\ opts = DefaultReceiveOptions
    /\ inflight = None
    /\ outcome = "none"
    /\ result = None
    /\ pulled = <<>>
    /\ returned = <<>>
    /\ lastPull = "none"
    /\ sawEmpty = FALSE

\* ---------------------------------------------------------------- receive

\* Mutant of PopFront: pop_back, the newest element is handed out.
PopBack(buf) == [handle |-> buf[Len(buf)], rest |-> SubSeq(buf, 1, Len(buf) - 1)]

\* VecDeque::pop_front: the element handed out and the rest.
PopFront(buf) == [handle |-> Head(buf), rest |-> Tail(buf)]

\* Mutant of BreakNone: `||` in place of `&&`.
BreakNoneOr(messages, o) == messages = <<>> \/ o.return_immediately

\* Mutant of BreakNone: the flag is negated.
BreakNoneNegated(messages, o) == messages = <<>> /\ ~o.return_immediately

\* Mutant of BreakNone: the flag is not looked at.
BreakNoneOnEmpty(messages, o) == messages = <<>>

\* `messages.is_empty() && opts.return_immediately`
BreakNone(messages, o) == messages = <<>> /\ o.return_immediately

\* Mutant of Extend: the batch is added one envelope per loop turn, so only
\* its first envelope is in the buffer at the next await point.
ExtendFirst(buf, messages) ==
    IF messages = <<>> THEN buf ELSE Append(buf, Head(messages))

\* `self.buffer.extend(messages)`
Extend(buf, messages) == buf \o messages

\* receive_with_options(opts): the call starts at the top of the loop.
receive_with_options(o) ==
    /\ handles[focus] = "live"
    /\ pc = "idle"
    /\ pc' = "loop"
    /\ opts' = o
    /\ outcome' = "pending"
    /\ result' = None
    /\ lastPull' = "none"
    /\ sawEmpty' = FALSE
    /\ UNCHANGED <<handleVars, streamVars, buffer, inflight, pulled, returned>>

\* receive(): receive_with_options(Default::default()).
receive == receive_with_options(DefaultReceiveOptions)

ReceiveWithOptions == \E o \in OptionChoices : receive_with_options(o)

\* `if let Some(handle) = self.buffer.pop_front()`: translate and return, or
\* panic in unwrap() / from_timestamp with the envelope already popped.
LoopPop ==
    /\ pc = "loop"
    /\ buffer # <<>>
    /\ LET popped == PopFront(buffer) IN
         /\ buffer' = popped.rest
         /\ IF CanTranslate(popped.handle)
              THEN /\ pc' = "idle"
                   /\ outcome' = "message"
                   /\ result' = Some(ToMessage(popped.handle, Name))
                   /\ returned' = Append(returned, ToMessage(popped.handle, Name))
              ELSE /\ pc' = "panicked"
                   /\ outcome' = "panic"
                   /\ UNCHANGED <<result, returned>>
    /\ UNCHANGED <<handleVars, streamVars, opts, inflight, pulled, lastPull, sawEmpty>>

\* Mutant of LoopPull: the pull is issued whatever the buffer holds.
LoopPullAlways ==
    /\ pc = "loop"
    /\ pc' = "constructing"
    /\ lastPull' = "pending"
    /\ UNCHANGED <<handleVars, streamVars, buffer, opts, inflight, outcome, result, pulled, returned, sawEmpty>>

\* `else if let Ok(messages) = self.pull(&opts).await`: pull() starts by
\* awaiting construct_request.
LoopPull ==
    /\ pc = "loop"
    /\ buffer = <<>>
    /\ pc' = "constructing"
    /\ lastPull' = "pending"
    /\ UNCHANGED <<handleVars, streamVars, buffer, opts, inflight, outcome, result, pulled, returned, sawEmpty>>

\* construct_request succeeded: the request goes to subscriber.pull.
ConstructOk ==
    /\ pc = "constructing"
    /\ pc' = "pulling"
    /\ inflight' = Some(PullRequest(Name, opts))
    /\ UNCHANGED <<handleVars, streamVars, buffer, opts, outcome, result, pulled, returned, lastPull, sawEmpty>>

\* construct_request failed: pull returns Err by `?`, receive loops.
ConstructErr ==
    /\ pc = "constructing"
    /\ pc' = "loop"
    /\ lastPull' = "construct_err"
    /\ UNCHANGED <<handleVars, streamVars, buffer, opts, inflight, outcome, result, pulled, returned, sawEmpty>>

\* subscriber.pull answered Ok(messages); a deleted subscription is not served.
PullOk ==
    /\ pc = "pulling"
    /\ ~deleted
    /\ \E messages \in SeqsOf(Envelopes, 0, inflight[1].max_messages) :
         /\ Len(Flatten(pulled)) + Len(messages) <= MaxPulled
         /\ inflight' = None
         /\ lastPull' = IF messages = <<>> THEN "empty" ELSE "batch"
         /\ sawEmpty' = (sawEmpty \/ messages = <<>>)
         /\ pulled' = IF messages = <<>> THEN pulled ELSE Append(pulled, messages)
         /\ IF BreakNone(messages, opts)
              THEN /\ pc' = "idle"
                   /\ outcome' = "eos"
                   /\ UNCHANGED buffer
              ELSE /\ pc' = "loop"
                   /\ buffer' = Extend(buffer, messages)
                   /\ UNCHANGED outcome
    /\ UNCHANGED <<handleVars, streamVars, opts, result, returned>>

\* Mutant of PullErr: the failure ends the call (`break None` on Err).
PullErrBreaks ==
    /\ pc = "pulling"
    /\ pc' = "idle"
    /\ outcome' = "eos"
    /\ inflight' = None
    /\ lastPull' = "pull_err"
    /\ UNCHANGED <<handleVars, streamVars, buffer, opts, result, pulled, returned, sawEmpty>>

\* subscriber.pull answered Err: pull returns Err by `?`, receive loops.
PullErr ==
    /\ pc = "pulling"
    /\ pc' = "loop"
    /\ inflight' = None
    /\ lastPull' = "pull_err"
    /\ UNCHANGED <<handleVars, streamVars, buffer, opts, outcome, result, pulled, returned, sawEmpty>>

\* The caller drops the receive future at one of its await points.
CancelReceive ==
    /\ pc \in {"constructing", "pulling"}
    /\ pc' = "idle"
    /\ outcome' = "cancelled"
    /\ inflight' = None
    /\ UNCHANGED <<handleVars, streamVars, buffer, opts, result, pulled, returned, lastPull, sawEmpty>>

ReceiveNext ==
    \/ receive
    \/ ReceiveWithOptions
    \/ LoopPop
    \/ LoopPull
    \/ ConstructOk
    \/ ConstructErr
    \/ PullOk
    \/ PullErr
    \/ CancelReceive

\* ------------------------------------------------------ streaming pull

\* ReceiveStreamOptions, one outbound control frame's payload.
ReceiveStreamOptions(acks, mdAcks, mdSecs, deadline) ==
    [ack_ids |-> acks,
     modify_deadline_ack_ids |-> mdAcks,
     modify_deadline_seconds |-> mdSecs,
     stream_ack_deadline_seconds |-> deadline]

\* The payloads a caller opens a session with or submits to a sink.
StreamOptionChoices ==
    { ReceiveStreamOptions(<<"ack-1">>, <<>>, <<>>, 0),
      ReceiveStreamOptions(<<>>, <<"ack-2">>, <<30>>, 60) }

\* api::StreamingPullRequest.
StreamingPullRequest(sub, o) ==
    [subscription |-> sub,
     ack_ids |-> o.ack_ids,
     modify_deadline_seconds |-> o.modify_deadline_seconds,
     modify_deadline_ack_ids |-> o.modify_deadline_ack_ids,
     stream_ack_deadline_seconds |-> o.stream_ack_deadline_seconds]

\* `let spr = api::StreamingPullRequest { subscription: self.name.clone(), .. }`
InitialRequest(name, o) == StreamingPullRequest(name, o)

\* Client::construct_streaming_request: the frames of the request it returns
\* start with the initial request; the sender it returns feeds the rest.
ConstructStreamingRequest(spr) == <<spr>>

\* Mutant of WithFrame: the subscription name is sent on every frame.
WithFrameNamed(name, o) == StreamingPullRequest(name, o)

\* Mutant of WithFrame: the closure clears the stream ack deadline as well.
WithFrameNoDeadline(name, o) ==
    [StreamingPullRequest("", o) EXCEPT !.stream_ack_deadline_seconds = 0]

\* The closure given to `sender.with`: the frame sent for a submitted payload.
WithFrame(name, o) == StreamingPullRequest("", o)

\* Mutant of MapOk: the batch is translated back to front.
MapOkReversed(batch, name) ==
    [i \in 1..Len(batch) |-> ToMessage(batch[Len(batch) + 1 - i], name)]

\* The closure given to `map_ok`: a batch translated element by element.
MapOk(batch, name) == [i \in 1..Len(batch) |-> ToMessage(batch[i], name)]

\* TRUE when the map_ok closure runs without a panic on the batch.
CanMapOk(batch) == \A i \in 1..Len(batch) : CanTranslate(batch[i])

\* `map_err(Error::from)`: a tonic Status becomes Error::Status.
MapErr(status) == [variant |-> "Status", status |-> status]

\* Inbound items of the transport's response stream: Ok(response) or Err(status).
OkItem(batch) == [ok |-> TRUE, value |-> batch]

ErrItem(e) == [ok |-> FALSE, value |-> e]

\* What the transport may produce next on the inbound direction, with at most
\* n envelopes in a batch.
InboundChoices(n) ==
    { OkItem(b) : b \in SeqsOf(Envelopes, 0, n) } \cup { ErrItem("unavailable") }

\* Number of envelopes in a sequence of inbound items.
RECURSIVE EnvelopeCount(_)
EnvelopeCount(items) ==
    IF items = <<>> THEN 0
    ELSE (IF Head(items).ok THEN Len(Head(items).value) ELSE 0)
         + EnvelopeCount(Tail(items))

\* The item the wrapped stream yields for an inbound item (when it does not panic).
StreamItem(item, name) ==
    IF item.ok THEN OkItem(MapOk(item.value, name)) ELSE ErrItem(MapErr(item.value))

\* The sink handles: the wrapped sender pull_streaming returns, and a clone.
SinkIds == {"sender", "clone"}

StreamingInit ==
    /\ sess = "none"
    /\ openOpts = None
    /\ sinks = [h \in SinkIds |-> "absent"]
    /\ outq = <<>>
    /\ transmitted = <<>>
    /\ submitted = <<>>
    /\ inq = <<>>
    /\ inEnded = FALSE
    /\ inHist = <<>>
    /\ stream = "none"
    /\ delivered = <<>>

\* pull_streaming(opts): builds the initial request and awaits
\* construct_streaming_request.  It borrows the Subscription mutably, so no
\* receive call is in progress.
pull_streaming ==
    /\ handles[focus] = "live"
    /\ sess = "none"
    /\ pc \in {"idle"}
    /\ \E o \in StreamOptionChoices : openOpts' = Some(o)
    /\ sess' = "constructing"
    /\ UNCHANGED <<handleVars, receiveVars, sinks, outq, transmitted, submitted, inq, inEnded, inHist,
                   stream, delivered>>

\* construct_streaming_request succeeded: it returns the request, whose frame
\* stream starts with the initial request, and the sender feeding that stream;
\* pull_streaming wraps the sender and awaits streaming_pull.
ConstructStreamingOk ==
    /\ sess = "constructing"
    /\ sess' = "opening"
    /\ outq' = ConstructStreamingRequest(InitialRequest(Name, openOpts[1]))
    /\ sinks' = [sinks EXCEPT !["sender"] = "open"]
    /\ UNCHANGED <<handleVars, receiveVars, openOpts, transmitted, submitted, inq, inEnded, inHist,
                   stream, delivered>>

\* construct_streaming_request failed: pull_streaming returns Err by `?`.
ConstructStreamingErr ==
    /\ sess = "constructing"
    /\ sess' = "failed"
    /\ UNCHANGED <<handleVars, receiveVars, openOpts, sinks, outq, transmitted, submitted, inq, inEnded,
                   inHist, stream, delivered>>

\* streaming_pull succeeded: the response stream is wrapped and returned with
\* the wrapped sender.
StreamingPullOk ==
    /\ sess = "opening"
    /\ sess' = "open"
    /\ stream' = "live"
    /\ UNCHANGED <<handleVars, receiveVars, openOpts, sinks, outq, transmitted, submitted, inq, inEnded,
                   inHist, delivered>>

\* streaming_pull failed: pull_streaming returns Err by `?`, dropping the sender.
StreamingPullErr ==
    /\ sess = "opening"
    /\ sess' = "failed"
    /\ sinks' = [sinks EXCEPT !["sender"] = "closed"]
    /\ UNCHANGED <<handleVars, receiveVars, openOpts, outq, transmitted, submitted, inq, inEnded, inHist,
                   stream, delivered>>

\* The transport takes the next frame of the request stream and sends it.
Transmit ==
    /\ sess \in {"opening", "open"}
    /\ outq # <<>>
    /\ transmitted' = Append(transmitted, Head(outq))
    /\ outq' = Tail(outq)
    /\ UNCHANGED <<handleVars, receiveVars, sess, openOpts, sinks, submitted, inq, inEnded, inHist,
                   stream, delivered>>

\* Mutant of SinkSend: the frame jumps the queue of the request stream.
SinkSendFront(h) ==
    /\ sess = "open"
    /\ sinks[h] = "open"
    /\ Len(inHist) + Len(submitted) < MaxTraffic
    /\ \E o \in StreamOptionChoices :
         /\ outq' = <<WithFrame(Name, o)>> \o outq
         /\ submitted' = Append(submitted, o)
    /\ UNCHANGED <<handleVars, receiveVars, sess, openOpts, sinks, transmitted, inq, inEnded, inHist,
                   stream, delivered>>

\* Mutant of SinkSend: a payload is accepted only once every inbound item
\* has been taken by the consumer.
SinkSendAfterInbound(h) ==
    /\ sess = "open"
    /\ sinks[h] = "open"
    /\ inq = <<>>
    /\ Len(inHist) + Len(submitted) < MaxTraffic
    /\ \E o \in StreamOptionChoices :
         /\ outq' = Append(outq, WithFrame(Name, o))
         /\ submitted' = Append(submitted, o)
    /\ UNCHANGED <<handleVars, receiveVars, sess, openOpts, sinks, transmitted, inq, inEnded, inHist,
                   stream, delivered>>

\* Mutant of SinkSend: the sink refuses a payload once the inbound stream
\* has ended.
SinkSendWhileLive(h) ==
    /\ sess = "open"
    /\ sinks[h] = "open"
    /\ stream = "live"
    /\ Len(inHist) + Len(submitted) < MaxTraffic
    /\ \E o \in StreamOptionChoices :
         /\ outq' = Append(outq, WithFrame(Name, o))
         /\ submitted' = Append(submitted, o)
    /\ UNCHANGED <<handleVars, receiveVars, sess, openOpts, sinks, transmitted, inq, inEnded, inHist,
                   stream, delivered>>

\* The caller submits a payload through sink handle h (SinkExt::send): the
\* `with` closure maps it and the frame is queued on the request stream.
SinkSend(h) ==
    /\ sess = "open"
    /\ sinks[h] = "open"
    /\ Len(inHist) + Len(submitted) < MaxTraffic
    /\ \E o \in StreamOptionChoices :
         /\ outq' = Append(outq, WithFrame(Name, o))
         /\ submitted' = Append(submitted, o)
    /\ UNCHANGED <<handleVars, receiveVars, sess, openOpts, sinks, transmitted, inq, inEnded, inHist,
                   stream, delivered>>

\* The sink is Clone: the caller clones handle h into a fresh handle.
SinkClone(h) ==
    /\ sess = "open"
    /\ sinks[h] = "open"
    /\ \E g \in SinkIds :
         /\ sinks[g] = "absent"
         /\ sinks' = [sinks EXCEPT ![g] = "open"]
    /\ UNCHANGED <<handleVars, receiveVars, sess, openOpts, outq, transmitted, submitted, inq, inEnded,
                   inHist, stream, delivered>>

\* Mutant of SinkClose: closing one handle closes the channel for every
\* handle (close_channel).
SinkCloseAll(h) ==
    /\ sess = "open"
    /\ sinks[h] = "open"
    /\ sinks' = [g \in SinkIds |-> IF sinks[g] = "open" THEN "closed" ELSE sinks[g]]
    /\ UNCHANGED <<handleVars, receiveVars, sess, openOpts, outq, transmitted, submitted, inq, inEnded,
                   inHist, stream, delivered>>

\* The caller closes (or drops) sink handle h.
SinkClose(h) ==
    /\ sess = "open"
    /\ sinks[h] = "open"
    /\ sinks' = [sinks EXCEPT ![h] = "closed"]
    /\ UNCHANGED <<handleVars, receiveVars, sess, openOpts, outq, transmitted, submitted, inq, inEnded,
                   inHist, stream, delivered>>

\* The transport receives the next inbound item from the service.
TransportReceive ==
    /\ sess = "open"
    /\ ~inEnded
    /\ Len(inHist) + Len(submitted) < MaxTraffic
    /\ \E item \in InboundChoices(MaxStreamed - EnvelopeCount(inHist)) :
         /\ inq' = Append(inq, item)
         /\ inHist' = Append(inHist, item)
    /\ UNCHANGED <<handleVars, receiveVars, sess, openOpts, sinks, outq, transmitted, submitted, inEnded,
                   stream, delivered>>

\* The service ends the inbound direction.
TransportEnd ==
    /\ sess = "open"
    /\ ~inEnded
    /\ inEnded' = TRUE
    /\ UNCHANGED <<handleVars, receiveVars, sess, openOpts, sinks, outq, transmitted, submitted, inq,
                   inHist, stream, delivered>>

\* Mutant of StreamNextItem: the envelopes of a delivered batch are also put
\* into the Subscription's buffer.
StreamNextItemBuffers ==
    /\ stream = "live"
    /\ inq # <<>>
    /\ inq' = Tail(inq)
    /\ IF Head(inq).ok /\ ~CanMapOk(Head(inq).value)
         THEN /\ stream' = "panicked"
              /\ UNCHANGED <<delivered, buffer>>
         ELSE /\ delivered' = Append(delivered, StreamItem(Head(inq), Name))
              /\ buffer' = IF Head(inq).ok THEN Extend(buffer, Head(inq).value) ELSE buffer
              /\ UNCHANGED stream
    /\ UNCHANGED <<handleVars, pc, opts, inflight, outcome, result, pulled, returned, lastPull,
                   sawEmpty, sess, openOpts, sinks, outq, transmitted, submitted, inEnded,
                   inHist>>

\* Mutant of StreamNextItem: the stream is fused at its first error item.
StreamNextItemFused ==
    /\ stream = "live"
    /\ inq # <<>>
    /\ inq' = Tail(inq)
    /\ IF Head(inq).ok /\ ~CanMapOk(Head(inq).value)
         THEN /\ stream' = "panicked"
              /\ UNCHANGED delivered
         ELSE /\ delivered' = Append(delivered, StreamItem(Head(inq), Name))
              /\ stream' = IF Head(inq).ok THEN stream ELSE "ended"
    /\ UNCHANGED <<handleVars, receiveVars, sess, openOpts, sinks, outq, transmitted, submitted, inEnded,
                   inHist>>

\* The consumer polls the wrapped stream and an inbound item is ready: map_ok
\* translates a batch (or panics in unwrap()), map_err converts an error.
StreamNextItem ==
    /\ stream = "live"
    /\ inq # <<>>
    /\ inq' = Tail(inq)
    /\ IF Head(inq).ok /\ ~CanMapOk(Head(inq).value)
         THEN /\ stream' = "panicked"
              /\ UNCHANGED delivered
         ELSE /\ delivered' = Append(delivered, StreamItem(Head(inq), Name))
              /\ UNCHANGED stream
    /\ UNCHANGED <<handleVars, receiveVars, sess, openOpts, sinks, outq, transmitted, submitted, inEnded,
                   inHist>>

\* The consumer polls the wrapped stream at the end of the inbound direction.
StreamNextEnd ==
    /\ stream = "live"
    /\ inq = <<>>
    /\ inEnded
    /\ stream' = "ended"
    /\ UNCHANGED <<handleVars, receiveVars, sess, openOpts, sinks, outq, transmitted, submitted, inq,
                   inEnded, inHist, delivered>>

StreamingNext ==
    \/ pull_streaming
    \/ ConstructStreamingOk
    \/ ConstructStreamingErr
    \/ StreamingPullOk
    \/ StreamingPullErr
    \/ Transmit
    \/ \E h \in SinkIds : SinkSend(h)
    \/ \E h \in SinkIds : SinkClone(h)
    \/ \E h \in SinkIds : SinkClose(h)
    \/ TransportReceive
    \/ TransportEnd
    \/ StreamNextItem
    \/ StreamNextEnd

\* --------------------------------------------------- handles and delete

\* The Subscription values of the caller: the one Subscription::new made, and
\* one made from it by the derived Clone.
HandleIds == {"original", "clone"}

Other(h) == CHOOSE g \in HandleIds : g # h

\* The buffer field of a Subscription value.
BufferOf(h) == IF h = focus THEN buffer ELSE parked

\* The envelopes a Subscription value holds for later receive calls.
Held(h) == IF handles[h] = "live" THEN BufferOf(h) ELSE <<>>

\* `api::DeleteSubscriptionRequest { subscription: self.name.clone() }`
DeleteSubscriptionRequest(name) == [subscription |-> name]

\* A call that borrows the Subscription value in use is in progress.
Borrowed == pc # "idle" \/ sess \in {"constructing", "opening"}

HandleInit ==
    /\ handles = [h \in HandleIds |-> IF h = "original" THEN "live" ELSE "absent"]
    /\ focus = "original"
    /\ parked = <<>>
    /\ del = "none"
    /\ deleteRequests = <<>>
    /\ deleted = FALSE

\* `#[derive(Clone)]`: the copy of a buffer the derived clone() makes.
CloneBuffer(buf) == buf

\* Subscription::clone (derived): a second value with a copy of every field,
\* the buffer included.
Clone ==
    /\ handles[focus] = "live"
    /\ handles[Other(focus)] = "absent"
    /\ ~Borrowed
    /\ handles' = [handles EXCEPT ![Other(focus)] = "live"]
    /\ parked' = CloneBuffer(buffer)
    /\ UNCHANGED <<receiveVars, streamVars, focus, del, deleteRequests, deleted>>

\* The caller turns to its other Subscription value: each value has its own
\* buffer field.
SwitchHandle ==
    /\ handles[Other(focus)] = "live"
    /\ ~Borrowed
    /\ del \notin {"constructing", "deleting"}
    /\ focus' = Other(focus)
    /\ buffer' = parked
    /\ parked' = buffer
    /\ UNCHANGED <<streamVars, pc, opts, inflight, outcome, result, pulled, returned,
                   lastPull, sawEmpty, handles, del, deleteRequests, deleted>>

\* Mutant of delete: `&self` in place of `mut self`, the value stays usable.
deleteByRef ==
    /\ handles[focus] = "live"
    /\ ~Borrowed
    /\ del \notin {"constructing", "deleting"}
    /\ del' = "constructing"
    /\ UNCHANGED <<receiveVars, streamVars, handles, focus, parked, deleteRequests, deleted>>

\* delete(mut self): the Subscription value moves into the call, which builds
\* the request and awaits construct_request.
delete ==
    /\ handles[focus] = "live"
    /\ ~Borrowed
    /\ del \notin {"constructing", "deleting"}
    /\ handles' = [handles EXCEPT ![focus] = "consumed"]
    /\ del' = "constructing"
    /\ UNCHANGED <<receiveVars, streamVars, focus, parked, deleteRequests, deleted>>

\* construct_request succeeded: the request goes to delete_subscription.
DeleteConstructOk ==
    /\ del = "constructing"
    /\ del' = "deleting"
    /\ deleteRequests' = Append(deleteRequests, DeleteSubscriptionRequest(Name))
    /\ UNCHANGED <<receiveVars, streamVars, handles, focus, parked, deleted>>

\* construct_request failed: delete returns Err by `?`, nothing was sent.
DeleteConstructErr ==
    /\ del = "constructing"
    /\ del' = "construct_err"
    /\ UNCHANGED <<receiveVars, streamVars, handles, focus, parked, deleteRequests, deleted>>

\* delete_subscription answered Ok: delete returns Ok(()).
DeleteOk ==
    /\ del = "deleting"
    /\ del' = "ok"
    /\ deleted' = TRUE
    /\ UNCHANGED <<receiveVars, streamVars, handles, focus, parked, deleteRequests>>

\* delete_subscription answered Err: delete returns Err by `?`.
DeleteErr ==
    /\ del = "deleting"
    /\ del' = "remote_err"
    /\ UNCHANGED <<receiveVars, streamVars, handles, focus, parked, deleteRequests, deleted>>

\* Two Subscription values in use: receive on either, and clone.
CloneNext ==
    \/ receive
    \/ ReceiveWithOptions
    \/ LoopPop
    \/ LoopPull
    \/ ConstructOk
    \/ ConstructErr
    \/ PullOk
    \/ PullErr
    \/ CancelReceive
    \/ Clone
    \/ SwitchHandle

\* The Subscription values in use: receive with the default options, clone,
\* delete and the opening of a streaming pull session.
HandleNext ==
    \/ receive
    \/ LoopPop
    \/ LoopPull
    \/ ConstructOk
    \/ ConstructErr
    \/ PullOk
    \/ PullErr
    \/ CancelReceive
    \/ Clone
    \/ SwitchHandle
    \/ delete
    \/ DeleteConstructOk
    \/ DeleteConstructErr
    \/ DeleteOk
    \/ DeleteErr
    \/ pull_streaming
    \/ ConstructStreamingOk
    \/ ConstructStreamingErr
    \/ StreamingPullOk
    \/ StreamingPullErr

\* The transport receives an inbound item while the Subscription is also
\* used for receive: the pulled batches count towards the traffic bound.
TransportReceiveBesidePulls ==
    /\ Len(inHist) + Len(pulled) < MaxTraffic
    /\ TransportReceive

\* subscriber.pull answers while the Subscription also has a streaming pull
\* session: the inbound items count towards the traffic bound.
PullOkBesideStream ==
    /\ Len(inHist) + Len(pulled) < MaxTraffic
    /\ PullOk

\* One Subscription used for receive and for a streaming pull session that
\* opens and delivers inbound items.
BufferAndStreamNext ==
    \/ receive
    \/ ReceiveWithOptions
    \/ LoopPop
    \/ LoopPull
    \/ ConstructOk
    \/ ConstructErr
    \/ PullOkBesideStream
    \/ PullErr
    \/ CancelReceive
    \/ pull_streaming
    \/ ConstructStreamingOk
    \/ StreamingPullOk
    \/ TransportReceiveBesidePulls
    \/ StreamNextItem

Init == ReceiveInit /\ StreamingInit /\ HandleInit

Next == ReceiveNext \/ StreamingNext \/ HandleNext \/ CloneNext \/ BufferAndStreamNext

Spec == Init /\ [][Next]_vars

\* The batch buffer and receive alone.
ReceiveSpec == Init /\ [][ReceiveNext]_vars

\* One streaming pull session alone.
StreamingSpec == Init /\ [][StreamingNext]_vars

\* The inbound stream has ended, or has delivered an error item.
InboundOver == stream = "ended" \/ \E i \in 1..Len(delivered) : ~delivered[i].ok

\* No handle of the outbound sink is open any more.
SinkClosed == sess = "open" /\ \A h \in SinkIds : sinks[h] # "open"

\* The request stream has ended: every sender of the channel is gone and every
\* queued frame was sent, so the transport ends the outbound direction.
OutboundEnded == SinkClosed /\ outq = <<>>

\* The service ends the inbound direction of a session whose outbound
\* direction has ended.
BrokerEndsSession == OutboundEnded /\ TransportEnd

\* One streaming pull session with a transport that keeps sending queued
\* frames, a service that ends a session whose outbound direction has ended,
\* and a consumer that keeps polling the stream.
FairStreamingSpec ==
    /\ StreamingSpec
    /\ WF_vars(Transmit)
    /\ WF_vars(BrokerEndsSession)
    /\ WF_vars(StreamNextItem)
    /\ WF_vars(StreamNextEnd)

\* The Subscription values of a caller: default receive, clone, delete and
\* the opening of a streaming pull session.
HandleSpec == Init /\ [][HandleNext]_vars

\* One Subscription used for receive and for a streaming pull session.
BufferAndStreamSpec == Init /\ [][BufferAndStreamNext]_vars

\* Two Subscription values of a caller: receive and clone.
CloneSpec == Init /\ [][CloneNext]_vars

\* receive with its loop scheduled fairly: once the future is polled, the
\* synchronous part of an iteration (the pop, or the start of a pull) runs.
\* The remote service's answers are under no fairness.
FairReceiveSpec ==
    /\ Init
    /\ [][ReceiveNext]_vars
    /\ WF_vars(LoopPop)
    /\ WF_vars(LoopPull)

\* ------------------------------------------------------ claims: streaming

\* C6: of the frames of a session (sent or still queued) only the first, the
\* opening frame, carries the subscription name; every frame after it, whatever
\* payload was submitted, has an empty subscription field.
C6_SubscriptionOnOpeningFrameOnly ==
    LET frames == transmitted \o outq
    IN  /\ \A i \in 1..Len(frames) :
              IF i = 1 THEN frames[i].subscription = Name
                       ELSE frames[i].subscription = ""
        /\ Cardinality({i \in 1..Len(transmitted) : transmitted[i].subscription # ""}) <= 1
        /\ Len(frames) = (IF sess \in {"none", "constructing"} \/ sinks["sender"] = "absent"
                            THEN 0 ELSE 1 + Len(submitted))

\* C6 witness: the opening frame and two different submitted frames were sent.
C6_Witness ==
    /\ Len(transmitted) >= 3
    /\ transmitted[2] # transmitted[3]
    /\ transmitted[1].subscription = Name

\* C7: every Ok item the wrapped stream has delivered is the batch the
\* transport produced at the same position, translated element by element:
\* as many Messages as envelopes, the i-th with the i-th envelope's ack id,
\* message id, payload and attributes and the subscription's name; and the
\* stream panics only on a batch holding a malformed envelope.
C7_BatchTranslatedElementwise ==
    /\ Len(delivered) <= Len(inHist)
    /\ \A i \in 1..Len(delivered) :
         inHist[i].ok =>
           /\ delivered[i].ok
           /\ CanMapOk(inHist[i].value)
           /\ Len(delivered[i].value) = Len(inHist[i].value)
           /\ \A j \in 1..Len(inHist[i].value) :
                LET envelope == inHist[i].value[j]
                    message  == delivered[i].value[j]
                IN  /\ message.ack_id = envelope.ack_id
                    /\ message.message_id = envelope.message[1].message_id
                    /\ message.data = envelope.message[1].data
                    /\ message.attributes = envelope.message[1].attributes
                    /\ message.subscription_name = Name
    /\ stream = "panicked" =>
         /\ Len(delivered) < Len(inHist)
         /\ inHist[Len(delivered) + 1].ok
         /\ ~CanMapOk(inHist[Len(delivered) + 1].value)

\* C7 witness: a batch of two different well-formed envelopes was delivered.
C7_Witness ==
    \E i \in 1..Len(delivered) :
        /\ delivered[i].ok
        /\ Len(delivered[i].value) = 2
        /\ delivered[i].value[1] # delivered[i].value[2]

C9_HalvesIndependent ==
    /\ [](\A h \in SinkIds :
            (sess = "open" /\ sinks[h] = "open"
               /\ Len(inHist) + Len(submitted) < MaxTraffic)
            => ENABLED SinkSend(h))
    /\ []((stream = "live" /\ inq # <<>>) => ENABLED StreamNextItem)
    /\ [][((submitted' # submitted)
              => UNCHANGED <<inq, inEnded, inHist, stream, delivered>>)
           /\ ((delivered' # delivered)
              => UNCHANGED <<sinks, outq, transmitted, submitted>>)]_vars

\* C9 witness: a submitted frame has been sent while two inbound items wait
\* untaken, the consumer having taken nothing.
C9_Witness ==
    /\ stream = "live"
    /\ Len(inq) >= 2
    /\ delivered = <<>>
    /\ Len(submitted) = 1
    /\ Len(transmitted) = 2
    /\ sinks["sender"] = "open"

\* -------------------------------------------------------- claims: receive

PullFailures == {"construct_err", "pull_err"}

\* C1: the messages receive has returned are the translation of a prefix of
\* the flattened pulled batches, in order, and the buffer holds exactly the
\* envelopes after that prefix (after the envelope that made unwrap() panic,
\* once receive has panicked): nothing is dropped, duplicated or reordered.
C1_FifoAcrossBatches ==
    LET flat == Flatten(pulled)
        n    == Len(returned)
    IN  /\ n <= Len(flat)
        /\ \A i \in 1..n : CanTranslate(flat[i]) /\ returned[i] = ToMessage(flat[i], Name)
        /\ pc # "panicked" => buffer = SubSeq(flat, n + 1, Len(flat))
        /\ pc = "panicked" =>
              /\ n < Len(flat)
              /\ ~CanTranslate(flat[n + 1])
              /\ buffer = SubSeq(flat, n + 2, Len(flat))

\* C1 witness: three messages returned from at least two batches, the first
\* two different, with an empty pull seen by the last call.
C1_Witness ==
    /\ Len(pulled) >= 2
    /\ Len(returned) >= 3
    /\ returned[1] # returned[2]
    /\ Len(returned) = Len(Flatten(pulled))
    /\ sawEmpty

\* C2: a pull is in progress only while the buffer is empty, and an iteration
\* that finds the buffer non-empty pops the oldest envelope, makes no remote
\* call and returns its translation (or panics on a malformed envelope).
C2_PullOnlyOnEmptyBuffer ==
    /\ []((pc \in {"constructing", "pulling"} \/ inflight # None) => buffer = <<>>)
    /\ [][(pc = "loop" /\ buffer # <<>>) =>
            /\ inflight' = None
            /\ buffer' = Tail(buffer)
            /\ lastPull' = lastPull
            /\ IF CanTranslate(Head(buffer))
                 THEN /\ pc' = "idle"
                      /\ outcome' = "message"
                      /\ result' = Some(ToMessage(Head(buffer), Name))
                 ELSE pc' = "panicked"]_vars

\* C2 witness: a call served from the buffer alone, without any pull.
C2_Witness ==
    /\ outcome = "message"
    /\ lastPull = "none"
    /\ opts.return_immediately

\* C3: end-of-stream is returned only to a call made with
\* return_immediately, and a blocking call that has returned has returned a
\* Message.
C3_BlockingNeverEndOfStream ==
    /\ outcome = "eos" => opts.return_immediately
    /\ (~opts.return_immediately /\ pc = "idle" /\ outcome \notin {"none", "cancelled"})
         => (outcome = "message" /\ result # None)

\* C3 witness: a blocking call whose pull came back empty is still pending.
C3_Witness ==
    /\ ~opts.return_immediately
    /\ lastPull = "empty"
    /\ outcome = "pending"
    /\ pc = "loop"

\* C4: when the pull of a return_immediately call succeeds with zero
\* envelopes, the call returns end-of-stream at once, with no pull in progress
\* and the buffer empty, and stays so until the next call.
C4_ImmediateEndOfStream ==
    /\ [][(lastPull = "pending" /\ lastPull' = "empty" /\ opts.return_immediately) =>
            /\ outcome' = "eos"
            /\ pc' = "idle"
            /\ inflight' = None
            /\ buffer' = <<>>
            /\ result' = None]_vars
    /\ [](outcome = "eos" =>
            /\ pc = "idle"
            /\ inflight = None
            /\ buffer = <<>>
            /\ lastPull = "empty")

\* C4 witness: a return_immediately call has returned end-of-stream.
C4_Witness ==
    /\ outcome = "eos"
    /\ opts.return_immediately
    /\ pc = "idle"

\* C5: a blocking call whose pull came back empty issues another pull, and
\* once a pull of a call that has seen an empty result brings a batch with a
\* well-formed first envelope, the call returns that envelope's Message.
C5_LoopsPastEmptyPulls ==
    /\ (lastPull = "empty" /\ ~opts.return_immediately) ~> (lastPull = "pending")
    /\ \A e \in {x \in Envelopes : CanTranslate(x)} :
         (/\ pc = "loop"
          /\ ~opts.return_immediately
          /\ sawEmpty
          /\ lastPull = "batch"
          /\ buffer # <<>>
          /\ Head(buffer) = e)
         ~> (outcome = "message" /\ result = Some(ToMessage(e, Name)))

\* C5 witness: a blocking call returned a Message after an empty pull and a
\* later non-empty one.
C5_Witness ==
    /\ ~opts.return_immediately
    /\ sawEmpty
    /\ lastPull = "batch"
    /\ outcome = "message"

\* C10: a failed pull (request construction or the remote call) leaves the
\* buffer alone and the call pending at the top of the loop, where the only
\* step is another pull; this holds with and without return_immediately.
C10_PullFailureSwallowed ==
    /\ [][(lastPull = "pending" /\ lastPull' \in PullFailures) =>
            /\ buffer' = buffer
            /\ returned' = returned
            /\ pc' = "loop"
            /\ outcome' = "pending"]_vars
    /\ [](lastPull \in PullFailures =>
            /\ pc = "loop"
            /\ outcome = "pending"
            /\ buffer = <<>>
            /\ ENABLED LoopPull
            /\ ~ENABLED LoopPop)

\* C10 witness: the remote call of a return_immediately call has failed and
\* the call is pending.
C10_Witness ==
    /\ lastPull = "pull_err"
    /\ opts.return_immediately
    /\ outcome = "pending"

\* --------------------------- claims: errors, sessions, handles, buffer

\* C11: whenever request construction fails inside receive, delete or
\* pull_streaming, the operation ends with that error returned to the caller
\* and no remote call is issued; for pull_streaming no stream and no sink are
\* handed to the caller.  (receive has no error to return: the failure is
\* swallowed and the loop goes round again.)
C11_ConstructionFailureReturned ==
    [][/\ (pc = "constructing" /\ lastPull' = "construct_err")
            => (pc' = "idle" /\ outcome' = "error" /\ inflight' = None)
       /\ (del = "constructing" /\ del' = "construct_err")
            => (deleteRequests' = deleteRequests)
       /\ (sess = "constructing" /\ sess' = "failed")
            => (/\ stream' = "none"
                /\ \A h \in SinkIds : sinks'[h] = "absent"
                /\ transmitted' = <<>>)]_vars

\* C12: a streaming batch holding an envelope with no inner message or no
\* publish time is delivered to the consumer as an error item of the stream:
\* every inbound item the consumer has taken has its item in `delivered`, and
\* the item of a malformed batch is an error.  (The unwrap() in the map_ok
\* closure panics instead: the poll yields no item at all.)
C12_MalformedBatchIsErrorItem ==
    \A i \in 1..(Len(inHist) - Len(inq)) :
        (inHist[i].ok /\ ~CanMapOk(inHist[i].value))
            => (i <= Len(delivered) /\ ~delivered[i].ok)

\* C13: a transport failure in mid-stream reaches the consumer as exactly one
\* error item per failed transport item, at the position of that item, and
\* the batches before and after it are still delivered: the items delivered
\* match the inbound items one for one, an error item does not end the
\* stream, and once the session is open no step issues streaming_pull again.
C13_TransportErrorsPassThrough ==
    /\ [](\A i \in 1..Len(delivered) :
            /\ delivered[i].ok = inHist[i].ok
            /\ ~inHist[i].ok => delivered[i] = ErrItem(MapErr(inHist[i].value)))
    /\ [](stream = "live" => Len(delivered) = Len(inHist) - Len(inq))
    /\ [](stream = "ended" => inEnded /\ inq = <<>>)
    /\ [][(sess \in {"open", "failed"}) => (sess' = sess)]_vars

\* An error item was delivered between two non-empty batches.
C13_Witness ==
    /\ Len(delivered) = 3
    /\ delivered[1].ok /\ delivered[1].value # <<>>
    /\ ~delivered[2].ok
    /\ delivered[3].ok /\ delivered[3].value # <<>>
    /\ sess = "open"

C16_DeadlineOnOpeningFrameOnly ==
    \A i \in 2..Len(transmitted) : transmitted[i].stream_ack_deadline_seconds = 0

\* C16 (amended): the opening frame carries the stream ack deadline given to
\* pull_streaming, and every later frame carries the stream ack deadline of
\* the payload submitted for it, unchanged.
C16_DeadlineForwardedOnEveryFrame ==
    LET frames == transmitted \o outq
    IN  /\ frames # <<>> =>
              frames[1].stream_ack_deadline_seconds
                  = openOpts[1].stream_ack_deadline_seconds
        /\ \A i \in 2..Len(frames) :
              /\ i - 1 <= Len(submitted)
              /\ frames[i].stream_ack_deadline_seconds
                     = submitted[i - 1].stream_ack_deadline_seconds

\* A frame after the opening frame was sent with a stream ack deadline, on a
\* session opened without one.
C16_Witness ==
    /\ Len(transmitted) >= 2
    /\ transmitted[1].stream_ack_deadline_seconds = 0
    /\ transmitted[2].stream_ack_deadline_seconds # 0

\* A receive, pull_streaming or delete call starts in this step.
CallStarts ==
    \/ pc = "idle" /\ pc' = "loop"
    \/ sess = "none" /\ sess' = "constructing"
    \/ del # "constructing" /\ del' = "constructing"

\* C17 as stated: delete issues one delete request for the subscription's
\* name and returns success or the remote error, and once delete has been
\* called on a subscription no further receive, pull_streaming or delete is
\* performed on that subscription.
C17_DeleteEndsSubscription ==
    /\ [](del \in {"ok", "remote_err", "construct_err"}
            => (del \in {"ok", "remote_err"} /\ deleteRequests # <<>>))
    /\ [][CallStarts => (\A h \in HandleIds : handles[h] # "consumed")]_vars

\* C17 (amended): a delete call issues at most one delete request, for the
\* subscription's name: none when request construction fails, one otherwise,
\* and then it returns success or the remote error.  The call consumes the
\* Subscription value it is made on: no receive, pull_streaming or delete
\* starts on a consumed value, while a clone made before the call stays live
\* and still starts calls for the same subscription.
C17_DeleteConsumesHandle ==
    /\ [](/\ \A i \in 1..Len(deleteRequests) :
               deleteRequests[i] = DeleteSubscriptionRequest(Name)
          /\ Len(deleteRequests) <= Cardinality({h \in HandleIds : handles[h] = "consumed"})
          /\ del \in {"deleting", "ok", "remote_err"} => deleteRequests # <<>>)
    /\ [][/\ (del = "constructing" /\ del' = "construct_err")
               => (deleteRequests' = deleteRequests)
          /\ (del = "constructing" /\ del' = "deleting")
               => (Len(deleteRequests') = Len(deleteRequests) + 1)
          /\ (del = "deleting") => (del' \in {"ok", "remote_err"})
          /\ \A h \in HandleIds : (handles[h] = "consumed") => (handles'[h] = "consumed")
          /\ CallStarts => (handles[focus] = "live")
          /\ (del # "constructing" /\ del' = "constructing")
               => (handles'[focus] = "consumed")]_vars
    /\ []((/\ handles[focus] = "live"
           /\ ~Borrowed
           /\ del \notin {"constructing", "deleting"}) => (ENABLED receive /\ ENABLED delete))

\* After a delete of the original value that sent its one request and
\* returned success, the clone has started a receive call.
C17_Witness ==
    /\ handles["original"] = "consumed"
    /\ handles["clone"] = "live"
    /\ focus = "clone"
    /\ del = "ok"
    /\ pc = "loop"
    /\ Len(deleteRequests) = 1

\* C18: a pull inside receive changes the buffer atomically.  Every step
\* leaves the buffer alone, takes its front envelope for delivery, or (the
\* answer of a pull) appends one whole returned batch to it; a receive call
\* cancelled while it awaits construct_request or the pull response leaves
\* the buffer and the pulled batches as they were.  So the buffer never holds
\* a proper part of a batch other than what is left after deliveries.
C18_PullExtendsAtomically ==
    /\ [][\/ buffer' = buffer
          \/ buffer # <<>> /\ buffer' = Tail(buffer) /\ pulled' = pulled
          \/ /\ pc = "pulling"
             /\ Len(pulled') = Len(pulled) + 1
             /\ buffer' = buffer \o pulled'[Len(pulled')]]_vars
    /\ [][(pulled' # pulled)
            => (buffer' = buffer \o pulled'[Len(pulled')])]_vars
    /\ [][(pc \in {"constructing", "pulling"} /\ outcome' = "cancelled")
            => (buffer' = buffer /\ pulled' = pulled)]_vars

\* A call was cancelled at an await point of its pull, after a batch of two
\* had been pulled and an envelope of it delivered.
C18_Witness ==
    /\ outcome = "cancelled"
    /\ lastPull = "pending"
    /\ Len(pulled) >= 1
    /\ Len(pulled[1]) = 2
    /\ returned # <<>>

\* C19: the buffer of every Subscription value is empty when the value comes
\* into existence, gains envelopes only through a successful pull made by that
\* value and loses envelopes only through that value's receive; and no two
\* values hold the same undelivered envelope: the envelopes held and the
\* ones taken for delivery are together no more than the envelopes pulled.
\* (The derived Clone copies the buffer.)
C19_BufferPrivateToInstance ==
    /\ [][\A h \in HandleIds :
            /\ (handles[h] = "absent" /\ handles'[h] = "live") => (Held(h)' = <<>>)
            /\ (Held(h)' # Held(h))
                 => (h = focus /\ h = focus' /\ pc \in {"loop", "pulling"})]_vars
    /\ [](Len(Held("original")) + Len(Held("clone")) + Len(returned)
             + (IF pc = "panicked" THEN 1 ELSE 0) <= Len(Flatten(pulled)))

\* C20: between receive calls the buffer holds no more envelopes than the
\* most recent non-empty pulled batch had, minus one (none before the first
\* batch); when receive has returned end-of-stream the buffer is empty; and
\* no step of a streaming pull session, from its opening to the delivery of
\* its batches, adds to or removes from the buffer.
C20_BufferBoundedAndUntouchedByStream ==
    /\ [](pc = "idle" =>
            Len(buffer) <= (IF pulled = <<>> THEN 0 ELSE Len(pulled[Len(pulled)]) - 1))
    /\ [](outcome = "eos" => buffer = <<>>)
    /\ [][(streamVars' # streamVars) => (buffer' = buffer)]_vars

\* Between two receive calls the buffer holds the second envelope of a batch
\* of two while the streaming session has delivered a non-empty batch.
C20_Witness ==
    /\ pc = "idle"
    /\ outcome = "message"
    /\ Len(buffer) = 1
    /\ Len(pulled[Len(pulled)]) = 2
    /\ sess = "open"
    /\ delivered # <<>>
    /\ delivered[1].ok
    /\ delivered[1].value # <<>>
====
